---- MODULE Spec2Model ----
(***************************************************************************)
(* Model of jobs/spark_history_demo.py: run_complex_spark_job, the demo    *)
(* pipeline that writes a generated dataset to the object store, reloads   *)
(* it, ranks it and writes two aggregates.                                 *)
(*                                                                         *)
(* One run of run_complex_spark_job is a walk of pc through the function's *)
(* statements.  The object store outlives a run; Retry runs the same       *)
(* configuration once more, in a new process, after the first run ended.   *)
(*                                                                         *)
(* Scaling.  The source generates 10000000 rows, groups them by id % 1000  *)
(* and filters groups with HAVING COUNT > 100.  The model draws the row    *)
(* count from 0..MaxRows and scales the modulus and the threshold down     *)
(* (GroupModulus, HavingThreshold) so that groups above, at and below the  *)
(* threshold all occur.  Floating point columns (complex_calc, sum, avg,   *)
(* median, avg_calc, std_dev, approximate distinct count) are left out of  *)
(* the rows: no row count or group depends on them.                        *)
(***************************************************************************)
EXTENDS Integers, Sequences, FiniteSets

\* ------------------------------------------------------------------ bounds
MaxRows == 3      \* largest generated dataset (the source: 10000000)
MaxSeed == 1      \* seeds of rand() are drawn from 0..MaxSeed
RandRange == 3    \* rand() yields a value in 0..RandRange-1

\* ------------------------------------------------------- program constants
GroupModulus == 2       \* col("id") % 1000, scaled
HavingThreshold == 1    \* HAVING COUNT > 100, scaled
ShowLimit == 5          \* show(5)

VARIABLES
    input_path,      \* the run's arguments; a path is a sequence of segments
    output_path,
    run,             \* "first", or "retry": the run after the first one ended
    pc,              \* the statement the run is at
    session,         \* "none", "active", "stopped"
    store,           \* object store: path -> [rows, complete]
    store0,          \* the object store as the current run found it
    gen,             \* df of lines 72-76, the generated dataset
    df,              \* df of line 96, the reloaded dataset
    cached,          \* df.persist() has been materialized
    df4,             \* the joined and ranked dataset of lines 112-138
    views,           \* the session's temporary views: name -> dataset
    sql_result,      \* the query of lines 146-157
    final_result,    \* the aggregate of lines 165-172
    initial_count,   \* -1 until counted
    read_count,
    processed_count,
    final_count,
    shown,           \* rows printed by show(5)
    ops,             \* forcing operations this run has completed, in order
    prev             \* what the previous successful run observed

vars == <<input_path, output_path, run, pc, session, store, store0, gen, df, cached,
          df4, views, sql_result, final_result, initial_count, read_count,
          processed_count, final_count, shown, ops, prev>>

\* -------------------------------------------------------------------- paths
EmptyPath == <<>>

InputPaths ==
    { EmptyPath, <<"in">>, <<"out">>, <<"out", "sql_results">>,
      <<"out", "final_results">> }

OutputPaths == { EmptyPath, <<"out">>, <<"in", "raw_data">> }

\* f"{base}/{name}"
Join(base, name) == Append(base, name)

RawDataPath(ip) == Join(ip, "raw_data")
SqlResultsPath(op) == Join(op, "sql_results")
\* a line 175 that repeats the path of line 161
FinalResultsPathOfSql(op) == Join(op, "sql_results")
FinalResultsPath(op) == Join(op, "final_results")

\* p is q or a directory above q
IsPrefix(p, q) == Len(p) <= Len(q) /\ SubSeq(q, 1, Len(p)) = p

\* ------------------------------------------------------------- object store
EmptyStore == [q \in {} |-> {}]

Content(rows, complete) == [rows |-> rows, complete |-> complete]

\* mode("append"): the rows are added to what lies at p
OverwriteAppend(s, p, c) ==
    [q \in DOMAIN s \cup {p} |->
        IF q # p THEN s[q]
        ELSE IF p \in DOMAIN s THEN Content(s[p].rows \cup c.rows, c.complete)
        ELSE c]

\* mode("ignore"): nothing is written where something lies at p
OverwriteIgnore(s, p, c) ==
    IF p \in DOMAIN s THEN s
    ELSE [q \in DOMAIN s \cup {p} |-> IF q = p THEN c ELSE s[q]]

\* mode("overwrite").parquet(p): whatever lies at or under p is deleted, then
\* the dataset is written at p
Overwrite(s, p, c) ==
    LET keep == {q \in DOMAIN s : ~IsPrefix(p, q)}
    IN  [q \in keep \cup {p} |-> IF q = p THEN c ELSE s[q]]

\* a write that fails after the delete and before any file is written
DeleteUnder(s, p) ==
    [q \in {q \in DOMAIN s : ~IsPrefix(p, q)} |-> s[q]]

\* the store a failed write of rows at p may leave behind
FailedWrites(s, p, rows) ==
    {s, DeleteUnder(s, p)}
        \cup {Overwrite(s, p, Content(part, FALSE)) : part \in SUBSET rows \ {rows}}

\* spark.read.schema(schema).parquet(p), schema = id, value, group
ReadParquet(s, p) ==
    {[id |-> r.id, value |-> r.value, group |-> r.group] : r \in s[p].rows}

\* ----------------------------------------------------------------- datasets
\* rand() of one plan: a function of the plan's seed and the row
Rand(seed, id) == (seed * (id + 1) + id \div 2) % RandRange

GroupOf(id) == id % GroupModulus

\* spark.range(0, n).withColumn("value", rand()).withColumn("group", id % 1000)
Generate(n, seed) ==
    {[id |-> i, value |-> Rand(seed, i), group |-> GroupOf(i)] : i \in 0 .. n - 1}

\* a line 113 that derives the group from the random column
TransformGroupFromRandom(d, seed) ==
    {[id |-> r.id, value |-> r.value, group |-> Rand(seed, r.id) % GroupModulus,
      random |-> Rand(seed, r.id)] : r \in d}

\* df.withColumn("random", rand()).withColumn("group", id % 1000)
Transform(d, seed) ==
    {[id |-> r.id, value |-> r.value, group |-> GroupOf(r.id),
      random |-> Rand(seed, r.id)] : r \in d}

Groups(d) == {r.group : r \in d}
Members(d, g) == {r \in d : r.group = g}

\* an aggregate that keeps only the groups above the threshold
AggregateLargeGroups(d) ==
    {[group |-> g, count |-> Cardinality(Members(d, g))] :
        g \in {h \in Groups(d) : Cardinality(Members(d, h)) > HavingThreshold}}

\* df1.groupBy("group").agg(count("*"))
Aggregate(d) ==
    {[group |-> g, count |-> Cardinality(Members(d, g))] : g \in Groups(d)}

\* df1.join(broadcast(df2), "group"): inner join on the group column
JoinOnGroup(d, agg) ==
    {[id |-> r.id, value |-> r.value, group |-> r.group, random |-> r.random,
      count |-> a.count] : <<r, a>> \in {x \in d \X agg : x[1].group = x[2].group}}

\* rank() and dense_rank() over partitionBy("group").orderBy("random")
Rank(d, r) ==
    1 + Cardinality({x \in Members(d, r.group) : x.random < r.random})
DenseRank(d, r) ==
    1 + Cardinality({x.random : x \in {y \in Members(d, r.group) : y.random < r.random}})

\* row_number() over the same window: any numbering of each group by
\* ascending random; rows of equal random are numbered in either order
RowNumberings(d) ==
    {f \in [{r.id : r \in d} -> 1 .. Cardinality(d)] :
        /\ \A g \in Groups(d) :
              {f[r.id] : r \in Members(d, g)} = 1 .. Cardinality(Members(d, g))
        /\ \A r1 \in d, r2 \in d :
              (r1.group = r2.group /\ r1.random < r2.random) => f[r1.id] < f[r2.id]}

Window(d, f) ==
    {[id |-> r.id, value |-> r.value, group |-> r.group, random |-> r.random,
      count |-> r.count, row_number |-> f[r.id], rank |-> Rank(d, r),
      dense_rank |-> DenseRank(d, r)] : r \in d}

\* lines 112-138: df1, df2, df3 and the outcomes of df4
RankedChoices(d, seed) ==
    LET df1 == Transform(d, seed)
        df3 == JoinOnGroup(df1, Aggregate(df1))
    IN  {Window(df3, f) : f \in RowNumberings(df3)}

SetMax(S) == CHOOSE x \in S : \A y \in S : y <= x
SetMin(S) == CHOOSE x \in S : \A y \in S : x <= y

\* the query with HAVING COUNT >= 100
SqlQueryAtLeast(v) ==
    {[group |-> g,
      max_random |-> SetMax({r.random : r \in Members(v, g)}),
      min_random |-> SetMin({r.random : r \in Members(v, g)})] :
        g \in {h \in Groups(v) : Cardinality(Members(v, h)) >= HavingThreshold}}

\* SELECT group, max(random), min(random) FROM complex_data GROUP BY group
\* HAVING COUNT > 100
SqlQuery(v) ==
    {[group |-> g,
      max_random |-> SetMax({r.random : r \in Members(v, g)}),
      min_random |-> SetMin({r.random : r \in Members(v, g)})] :
        g \in {h \in Groups(v) : Cardinality(Members(v, h)) > HavingThreshold}}

\* df4.repartition(100).groupBy("group").agg(count("*"), max("row_number"))
FinalAggregate(d) ==
    {[group |-> g, count |-> Cardinality(Members(d, g)),
      max_row_num |-> SetMax({r.row_number : r \in Members(d, g)})] :
        g \in Groups(d)}

\* final_result.orderBy("group").show(5)
Show(d) ==
    {r \in d : Cardinality({x \in d : x.group < r.group}) < ShowLimit}

\* ------------------------------------------------------------ control flow
\* a line 64 that tests the input path alone
PathsMissingInputOnly(ip, op) == ip = EmptyPath

\* line 64: not input_path or not output_path
PathsMissing(ip, op) == ip = EmptyPath \/ op = EmptyPath

\* a line 102 that tests read_count < 0
NoDataNegative(c) == c < 0

\* line 102: read_count == 0
NoData(c) == c = 0

ViewName == "complex_data"
NoViews == [v \in {} |-> {}]
NoObs == [n |-> -1]

Terminal == {"config_error", "data_error", "failed", "done"}

\* the statements with lines 165-175 moved before line 161
FollowingFinalFirst(label) ==
    CASE label = "create_session" -> "generate"
      [] label = "generate"       -> "write_raw"
      [] label = "write_raw"      -> "count_initial"
      [] label = "count_initial"  -> "reload"
      [] label = "reload"         -> "cache"
      [] label = "cache"          -> "transform"
      [] label = "transform"      -> "count_ranked"
      [] label = "count_ranked"   -> "register_view"
      [] label = "register_view"  -> "sql"
      [] label = "sql"            -> "final_agg"
      [] label = "final_agg"      -> "write_final"
      [] label = "write_final"    -> "write_sql"
      [] label = "write_sql"      -> "show"
      [] label = "show"           -> "final_count"
      [] label = "final_count"    -> "stop"
      [] label = "stop"           -> "done"

\* the statement that follows each statement of run_complex_spark_job
Following(label) ==
    CASE label = "create_session" -> "generate"
      [] label = "generate"       -> "write_raw"
      [] label = "write_raw"      -> "count_initial"
      [] label = "count_initial"  -> "reload"
      [] label = "reload"         -> "cache"
      [] label = "cache"          -> "transform"
      [] label = "transform"      -> "count_ranked"
      [] label = "count_ranked"   -> "register_view"
      [] label = "register_view"  -> "sql"
      [] label = "sql"            -> "write_sql"
      [] label = "write_sql"      -> "final_agg"
      [] label = "final_agg"      -> "write_final"
      [] label = "write_final"    -> "show"
      [] label = "show"           -> "final_count"
      [] label = "final_count"    -> "stop"
      [] label = "stop"           -> "done"

\* statements that call into the engine and may raise
Failable ==
    {"create_session", "count_initial", "reload", "cache", "count_ranked",
     "register_view", "sql", "show", "final_count", "stop"}

Init ==
    /\ input_path \in InputPaths
    /\ output_path \in OutputPaths
    /\ run = "first"
    /\ pc = "validate"
    /\ session = "none"
    /\ store = EmptyStore
    /\ store0 = EmptyStore
    /\ gen = {}
    /\ df = {}
    /\ cached = FALSE
    /\ df4 = {}
    /\ views = NoViews
    /\ sql_result = {}
    /\ final_result = {}
    /\ initial_count = -1
    /\ read_count = -1
    /\ processed_count = -1
    /\ final_count = -1
    /\ shown = {}
    /\ ops = <<>>
    /\ prev = NoObs


\* what a run that completed has observed: the row count and the group
\* distribution of every stage and artifact, and the random columns
GroupDist(d) == [g \in Groups(d) |-> Cardinality(Members(d, g))]

Obs ==
    [n |-> Cardinality(gen),
     counts |-> <<initial_count, read_count, processed_count, final_count>>,
     stages |-> <<GroupDist(gen), GroupDist(df), GroupDist(df4),
                  GroupDist(sql_result), GroupDist(final_result)>>,
     final_counts |-> {<<r.group, r.count>> : r \in final_result},
     artifacts |-> [q \in DOMAIN store |-> GroupDist(store[q].rows)],
     randoms |-> <<{<<r.id, r.value>> : r \in gen},
                   {<<r.id, r.random>> : r \in df4}>>]

data == <<gen, df, cached, df4, views, sql_result, final_result, shown>>
counts == <<initial_count, read_count, processed_count, final_count>>
config == <<input_path, output_path, run, store0, prev>>

\* lines 64-65
Validate ==
    /\ pc = "validate"
    /\ pc' = IF PathsMissing(input_path, output_path)
                THEN "config_error" ELSE "create_session"
    /\ UNCHANGED <<config, session, store, data, counts, ops>>

\* line 67
CreateSession ==
    /\ pc = "create_session"
    /\ session' = "active"
    /\ pc' = Following(pc)
    /\ UNCHANGED <<config, store, data, counts, ops>>

\* lines 72-76
GenerateData ==
    /\ pc = "generate"
    /\ \E n \in 0 .. MaxRows, seed \in 0 .. MaxSeed : gen' = Generate(n, seed)
    /\ pc' = Following(pc)
    /\ UNCHANGED <<config, session, store, df, cached, df4, views, sql_result,
                   final_result, shown, counts, ops>>

\* line 80
WriteRaw ==
    /\ pc = "write_raw"
    /\ store' = Overwrite(store, RawDataPath(input_path), Content(gen, TRUE))
    /\ ops' = Append(ops, "write_raw")
    /\ pc' = Following(pc)
    /\ UNCHANGED <<config, session, data, counts>>

\* line 84
CountInitial ==
    /\ pc = "count_initial"
    /\ initial_count' = Cardinality(gen)
    /\ ops' = Append(ops, "count_initial")
    /\ pc' = Following(pc)
    /\ UNCHANGED <<config, session, store, data, read_count, processed_count,
                   final_count>>

\* lines 96-103
Reload ==
    /\ pc = "reload"
    /\ IF RawDataPath(input_path) \in DOMAIN store
          THEN LET d == ReadParquet(store, RawDataPath(input_path))
               IN  /\ df' = d
                   /\ read_count' = Cardinality(d)
                   /\ ops' = Append(ops, "reload_count")
                   /\ pc' = IF NoData(Cardinality(d)) THEN "data_error" ELSE Following(pc)
          ELSE /\ pc' = "failed"
               /\ UNCHANGED <<df, read_count, ops>>
    /\ UNCHANGED <<config, session, store, gen, cached, df4, views, sql_result,
                   final_result, shown, initial_count, processed_count, final_count>>

\* lines 107-108
Cache ==
    /\ pc = "cache"
    /\ cached' = TRUE
    /\ ops' = Append(ops, "cache_count")
    /\ pc' = Following(pc)
    /\ UNCHANGED <<config, session, store, gen, df, df4, views, sql_result,
                   final_result, shown, counts>>

\* lines 112-138
TransformData ==
    /\ pc = "transform"
    /\ \E seed \in 0 .. MaxSeed : df4' \in RankedChoices(df, seed)
    /\ pc' = Following(pc)
    /\ UNCHANGED <<config, session, store, gen, df, cached, views, sql_result,
                   final_result, shown, counts, ops>>

\* line 140
CountRanked ==
    /\ pc = "count_ranked"
    /\ processed_count' = Cardinality(df4)
    /\ ops' = Append(ops, "count_ranked")
    /\ pc' = Following(pc)
    /\ UNCHANGED <<config, session, store, data, initial_count, read_count,
                   final_count>>

\* line 144
RegisterView ==
    /\ pc = "register_view"
    /\ views' = [v \in DOMAIN views \cup {ViewName} |->
                    IF v = ViewName THEN df4 ELSE views[v]]
    /\ ops' = Append(ops, "register_view")
    /\ pc' = Following(pc)
    /\ UNCHANGED <<config, session, store, gen, df, cached, df4, sql_result,
                   final_result, shown, counts>>

\* lines 146-157
Sql ==
    /\ pc = "sql"
    /\ IF ViewName \in DOMAIN views
          THEN /\ sql_result' = SqlQuery(views[ViewName])
               /\ pc' = Following(pc)
          ELSE /\ pc' = "failed"
               /\ UNCHANGED sql_result
    /\ UNCHANGED <<config, session, store, gen, df, cached, df4, views,
                   final_result, shown, counts, ops>>

\* line 161
WriteSql ==
    /\ pc = "write_sql"
    /\ store' = Overwrite(store, SqlResultsPath(output_path), Content(sql_result, TRUE))
    /\ ops' = Append(ops, "write_sql")
    /\ pc' = Following(pc)
    /\ UNCHANGED <<config, session, data, counts>>

\* lines 165-172
FinalAgg ==
    /\ pc = "final_agg"
    /\ final_result' = FinalAggregate(df4)
    /\ pc' = Following(pc)
    /\ UNCHANGED <<config, session, store, gen, df, cached, df4, views, sql_result,
                   shown, counts, ops>>

\* line 175
WriteFinal ==
    /\ pc = "write_final"
    /\ store' = Overwrite(store, FinalResultsPath(output_path),
                          Content(final_result, TRUE))
    /\ ops' = Append(ops, "write_final")
    /\ pc' = Following(pc)
    /\ UNCHANGED <<config, session, data, counts>>

\* line 178
ShowSample ==
    /\ pc = "show"
    /\ shown' = Show(final_result)
    /\ ops' = Append(ops, "show")
    /\ pc' = Following(pc)
    /\ UNCHANGED <<config, session, store, gen, df, cached, df4, views, sql_result,
                   final_result, counts>>

\* line 180
FinalCount ==
    /\ pc = "final_count"
    /\ final_count' = Cardinality(final_result)
    /\ ops' = Append(ops, "final_count")
    /\ pc' = Following(pc)
    /\ UNCHANGED <<config, session, store, data, initial_count, read_count,
                   processed_count>>

\* line 186
Stop ==
    /\ pc = "stop"
    /\ session' = "stopped"
    /\ ops' = Append(ops, "stop")
    /\ pc' = Following(pc)
    /\ UNCHANGED <<config, store, data, counts>>

\* an engine call raises; nothing in run_complex_spark_job catches it
EngineFailure ==
    /\ pc \in Failable
    /\ pc' = "failed"
    /\ UNCHANGED <<config, session, store, data, counts, ops>>

\* a write raises, leaving the target untouched, deleted or partly written
WriteFailure ==
    /\ \/ /\ pc = "write_raw"
          /\ store' \in FailedWrites(store, RawDataPath(input_path), gen)
       \/ /\ pc = "write_sql"
          /\ store' \in FailedWrites(store, SqlResultsPath(output_path), sql_result)
       \/ /\ pc = "write_final"
          /\ store' \in FailedWrites(store, FinalResultsPath(output_path), final_result)
    /\ pc' = "failed"
    /\ UNCHANGED <<config, session, data, counts, ops>>

\* lines 188-190, run again: a new process on the same object store
Retry ==
    /\ pc \in Terminal
    /\ run = "first"
    /\ run' = "retry"
    /\ store0' = store
    /\ prev' = IF pc = "done" THEN Obs ELSE prev
    /\ pc' = "validate"
    /\ session' = "none"
    /\ gen' = {}
    /\ df' = {}
    /\ cached' = FALSE
    /\ df4' = {}
    /\ views' = NoViews
    /\ sql_result' = {}
    /\ final_result' = {}
    /\ initial_count' = -1
    /\ read_count' = -1
    /\ processed_count' = -1
    /\ final_count' = -1
    /\ shown' = {}
    /\ ops' = <<>>
    /\ UNCHANGED <<input_path, output_path, store>>

Next ==
    \/ Validate
    \/ CreateSession
    \/ GenerateData
    \/ WriteRaw
    \/ CountInitial
    \/ Reload
    \/ Cache
    \/ TransformData
    \/ CountRanked
    \/ RegisterView
    \/ Sql
    \/ WriteSql
    \/ FinalAgg
    \/ WriteFinal
    \/ ShowSample
    \/ FinalCount
    \/ Stop
    \/ EngineFailure
    \/ WriteFailure
    \/ Retry

Spec == Init /\ [][Next]_vars


\* ------------------------------------------------------------------ claims
RawP == RawDataPath(input_path)
SqlP == Join(output_path, "sql_results")
FinalP == Join(output_path, "final_results")

\* the run has completed the forcing operation op
Did(op) == \E i \in 1 .. Len(ops) : ops[i] = op

\* C1: no run ends with its session acquired and not stopped, whether it
\* ends in success, in the zero-row error or in an engine or storage error.
C1_SessionReleasedOnEveryExit ==
    pc \in Terminal => session # "active"

\* C2: with an empty input_path or output_path the run ends in the
\* configuration error having acquired no session, completed no operation and
\* written nothing to the object store.
C2_ConfigErrorBeforeAnyWrite ==
    (Len(input_path) = 0 \/ Len(output_path) = 0) =>
        /\ pc \in {"validate", "config_error"}
        /\ session = "none"
        /\ ops = <<>>
        /\ store = store0
        /\ store = EmptyStore

C2_Witness ==
    /\ pc = "config_error"
    /\ Len(input_path) > 0
    /\ Len(output_path) = 0

\* C3: when the reload counts zero rows the run ends in the data-integrity
\* error right after the reload: nothing is cached, transformed, registered,
\* queried or counted, and neither sql_results nor final_results is written.
C3_ZeroRowsAbort ==
    read_count = 0 =>
        /\ pc = "data_error"
        /\ ops = <<"write_raw", "count_initial", "reload_count">>
        /\ ~cached
        /\ views = NoViews
        /\ df4 = {} /\ sql_result = {} /\ final_result = {} /\ shown = {}
        /\ processed_count = -1 /\ final_count = -1

C3_Witness ==
    /\ pc = "data_error"
    /\ read_count = 0
    /\ RawP \in DOMAIN store

\* C4, as stated: a run that completes leaves exactly the three artifacts
\* raw_data, sql_results and final_results.
C4_ExactlyThreeArtifacts ==
    pc = "done" => DOMAIN store = {RawP, SqlP, FinalP}

\* {input_path}/raw_data lies at or under one of the two result locations
RawUnderResults == IsPrefix(SqlP, RawP) \/ IsPrefix(FinalP, RawP)

\* C4, amended: a run with non-empty paths and a non-empty dataset that
\* meets no engine or storage error completes; nothing is ever written
\* outside the three locations; a completed run leaves sql_results and
\* final_results, and leaves raw_data exactly when raw_data does not lie
\* under sql_results or final_results, whose overwrite deletes it.
C4_ThreeArtifactsUnlessNested ==
    /\ (Len(input_path) > 0 /\ Len(output_path) > 0 /\ gen # {}
            /\ pc \in Terminal /\ pc # "failed") => pc = "done"
    /\ DOMAIN store \subseteq {RawP, SqlP, FinalP}
    /\ pc = "done" =>
        /\ {SqlP, FinalP} \subseteq DOMAIN store
        /\ store[SqlP] = Content(sql_result, TRUE)
        /\ store[FinalP] = Content(final_result, TRUE)
        /\ RawP \in DOMAIN store <=> ~RawUnderResults
        /\ RawP \in DOMAIN store => store[RawP] = Content(gen, TRUE)

C4_Witness ==
    /\ pc = "done"
    /\ ~RawUnderResults
    /\ Cardinality(DOMAIN store) = 3
    /\ input_path # output_path

\* members of group g in the ranked dataset
RankedGroupSize(g) == Cardinality({x \in df4 : x.group = g})

\* C5: sql_results holds only groups of more than HavingThreshold members,
\* and final_results holds every group of the ranked dataset, the groups of
\* HavingThreshold or fewer members included.
C5_HavingFiltersSqlResultsOnly ==
    Did("write_final") =>
        /\ \A r \in store[SqlP].rows : RankedGroupSize(r.group) > HavingThreshold
        /\ {r.group : r \in store[FinalP].rows} = {x.group : x \in df4}

C5_Witness ==
    /\ Did("write_final")
    /\ store[SqlP].rows # {}
    /\ \E r \in store[FinalP].rows :
          /\ r.count = HavingThreshold
          /\ r.group \notin {x.group : x \in store[SqlP].rows}

\* C6: the reloaded dataset has as many rows as the dataset that was
\* written, and the same ids.
C6_RoundTripKeepsRowCount ==
    read_count # -1 =>
        /\ read_count = initial_count
        /\ {r.id : r \in df} = {r.id : r \in gen}

C6_Witness ==
    /\ read_count = MaxRows
    /\ initial_count = MaxRows
    /\ run = "retry"
    /\ store0 # EmptyStore

\* the store a single successful run of the current data leaves on an empty store
FreshStore ==
    Overwrite(
        Overwrite(
            Overwrite(EmptyStore, RawP, Content(gen, TRUE)),
            SqlP, Content(sql_result, TRUE)),
        FinalP, Content(final_result, TRUE))

WriteTarget(label) ==
    CASE label = "write_raw" -> RawP
      [] label = "write_sql" -> SqlP
      [] label = "write_final" -> FinalP

\* C7: a step that ends a run in failure, and the start of the next run,
\* delete or rewrite nothing but the target of the write that failed; and a
\* run that completes leaves the store a single successful run leaves on an
\* empty store, whatever the failed run before it left behind.
C7_IdempotentOverwriteOnRetry ==
    [][ /\ (pc' \in Terminal /\ pc \notin {"write_raw", "write_sql", "write_final"})
            => store' = store
        /\ (pc' = "failed" /\ pc \in {"write_raw", "write_sql", "write_final"})
            => \A q \in DOMAIN store :
                  ~IsPrefix(WriteTarget(pc), q) =>
                      q \in DOMAIN store' /\ store'[q] = store[q]
        /\ pc \in Terminal => store' = store
        /\ pc' = "done" => store' = FreshStore'
      ]_vars

C7_Witness ==
    /\ run = "retry"
    /\ pc = "done"
    /\ prev = NoObs
    /\ Cardinality(DOMAIN store0) >= 2
    /\ \E q \in DOMAIN store0 : q \in DOMAIN store /\ store0[q] # store[q]
    /\ store = FreshStore

\* C8: two completed runs of the same configuration and size observe the
\* same row counts and the same group distribution in every stage and
\* artifact, whatever their random columns hold.
C8_CountsIndependentOfRandom ==
    (pc = "done" /\ prev # NoObs /\ prev.n = Obs.n) =>
        /\ prev.counts = Obs.counts
        /\ prev.stages = Obs.stages
        /\ prev.final_counts = Obs.final_counts
        /\ prev.artifacts = Obs.artifacts

C8_Witness ==
    /\ pc = "done"
    /\ prev # NoObs
    /\ prev.n = Obs.n
    /\ Obs.n = MaxRows
    /\ prev.randoms[1] # Obs.randoms[1]
    /\ prev.randoms[2] # Obs.randoms[2]

ForcingOrder ==
    <<"write_raw", "count_initial", "reload_count", "cache_count", "count_ranked",
      "register_view", "write_sql", "write_final", "show", "final_count", "stop">>

\* C9: the forcing operations a run has completed are always an initial
\* part of the fixed order, a completed run has done all of them, the cache
\* is materialized before the ranked dataset is evaluated, and the view is
\* registered before the query and the writes that read it.
C9_FixedOrderOfForcingOperations ==
    /\ IsPrefix(ops, ForcingOrder)
    /\ pc = "done" => ops = ForcingOrder
    /\ Did("count_ranked") => cached
    /\ (ViewName \in DOMAIN views) <=> Did("register_view")
    /\ pc \in {"write_sql", "final_agg", "write_final"} => Did("register_view")

C9_Witness ==
    /\ pc = "done"
    /\ ops = ForcingOrder
    /\ cached
    /\ views[ViewName] = df4
    /\ df4 # {}

\* C10: the joined and ranked dataset has as many rows as the reloaded
\* dataset, and final_results gives for every group of the reloaded rows
\* (id mod GroupModulus) the number of reloaded rows of that group.
C10_JoinKeepsEveryRowOnce ==
    /\ processed_count # -1 =>
        /\ processed_count = read_count
        /\ {r.id : r \in df4} = {r.id : r \in df}
    /\ Did("write_final") =>
        {<<r.group, r.count>> : r \in store[FinalP].rows}
            = {<<g, Cardinality({x \in df : x.id % GroupModulus = g})>> :
                  g \in {x.id % GroupModulus : x \in df}}

C10_Witness ==
    /\ Did("write_final")
    /\ processed_count = MaxRows
    /\ Cardinality(store[FinalP].rows) = GroupModulus
    /\ \E r \in store[FinalP].rows : r.count > 1

====
